---- MODULE Spec2Model ----
(***************************************************************************)
(* A model of src/src/groundtruth.py: the GroundTruth class that turns two *)
(* hand-marked volumes (pos_data, neg_data) into a ground-truth volume by  *)
(* stamping a ball of shape kernel_shape at every detected centre.        *)
(*                                                                         *)
(* Arrays are records [shape |-> <<Z,Y,X>>, val |-> [Idx(shape) -> Int]]   *)
(* with 0-based <<z,y,x>> indices, as numpy indexes them.                  *)
(***************************************************************************)
EXTENDS Integers, Sequences, FiniteSets, TLC

VARIABLES
    pos_data,          \* self.pos_data
    neg_data,          \* self.neg_data
    vesicle_diameter,  \* the constructor's vesicle_diameter argument
    voxel_size,        \* self.voxel_size (the resolution argument)
    min_distance,      \* self.min_distance
    kernel_shape,      \* self.kernel_shape
    balls,             \* self.balls: kernel-shape key -> boolean mask
    ground_truth,      \* self.ground_truth (NoArray until compute_gt sets it)
    hand_labelled_data,\* compute_gt's local: pos_data + neg_data
    vesicle_centres,   \* compute_gt's local: the list find_centres returned
    i,                 \* compute_gt's loop index
    pc,                \* "new" | "idle" | "stamping"
    returned,          \* the volumes compute_gt has returned, oldest first
    returned_id,       \* the identity (id()) of each returned volume
    gt_id,             \* the identity of self.ground_truth's array, 0: unset
    canvas,            \* a caller-owned array handed to draw_ball directly
    last,              \* the most recent draw_ball call and its locals
    err,               \* the exception the most recent call raised, or "none"
    computes,          \* compute_gt calls made so far
    draws              \* direct draw_ball calls made so far

vars == <<pos_data, neg_data, vesicle_diameter, voxel_size, min_distance,
          kernel_shape, balls, ground_truth, hand_labelled_data,
          vesicle_centres, i, pc, returned, returned_id, gt_id, canvas, last,
          err, computes, draws>>

----------------------------------------------------------------------------
(* Bounds of the model.                                                    *)

MaxMarks == 2       \* marked voxels in pos_data and neg_data together
MaxComputes == 2    \* compute_gt calls on one instance
MaxDraws == 1       \* direct draw_ball calls on one instance

----------------------------------------------------------------------------
(* Arithmetic and array helpers.                                           *)

Max(a, b) == IF a >= b THEN a ELSE b
Min(a, b) == IF a <= b THEN a ELSE b

Axes == 1..3

Idx(shape) ==
    {<<z, y, x>> : z \in 0..(shape[1] - 1), y \in 0..(shape[2] - 1),
                   x \in 0..(shape[3] - 1)}

NoArray == [shape |-> <<0, 0, 0>>, val |-> <<>>, unset |-> TRUE]

\* (a volume of ones, which the properties must tell from np.zeros)
Ones(shape) == [shape |-> shape, val |-> [p \in Idx(shape) |-> 1]]

\* np.zeros(shape, dtype=np.int64)
Zeros(shape) == [shape |-> shape, val |-> [p \in Idx(shape) |-> 0]]

\* (the floor, which the properties must tell from the ceiling)
CeilDivFloor(a, b) == a \div b

\* np.ceil(a / b) for a >= 0, b > 0
CeilDiv(a, b) == (a + b - 1) \div b

\* self.kernel_shape = np.ceil(diameter / self.voxel_size)
KernelShape(diameter, resolution) ==
    <<CeilDiv(diameter, resolution[1]), CeilDiv(diameter, resolution[2]),
      CeilDiv(diameter, resolution[3])>>

----------------------------------------------------------------------------
(* The boolean ball: skimage.morphology.ball(100, dtype=bool) resized to   *)
(* the kernel shape with order=0 and no anti-aliasing.                     *)

BallRadius == 100

\* skimage.morphology.ball(100): a (2*100+1)^3 grid, True where the squared
\* distance from the middle voxel is <= 100^2.
InBall(q) ==
    (q[1] - BallRadius) * (q[1] - BallRadius)
    + (q[2] - BallRadius) * (q[2] - BallRadius)
    + (q[3] - BallRadius) * (q[3] - BallRadius) <= BallRadius * BallRadius

\* Nearest-neighbour resize: output index j of an axis of size d reads the
\* input voxel floor((j + 0.5) * 201 / d - 0.5 + 0.5).
SampleIndex(j, d) == ((2 * j + 1) * (2 * BallRadius + 1)) \div (2 * d)

\* The resized ball at index k: the voxel of ball(100) that index samples.
BallVoxel(diameter, k) ==
    InBall(<<SampleIndex(k[1], diameter[1]),
             SampleIndex(k[2], diameter[2]),
             SampleIndex(k[3], diameter[3])>>)

\* ball = resize(ball(100, dtype=bool), diameter, order=0,
\*               anti_aliasing=False).astype(bool)
BooleanBall(diameter) ==
    [shape |-> diameter,
     val |-> [k \in Idx(diameter) |-> BallVoxel(diameter, k)] @@ <<>>]

----------------------------------------------------------------------------
(* draw_ball.                                                              *)

\* Python's slice(s[1], s[2]) on an axis of length n, as the half-open
\* range <<lo, hi>> it selects: a negative bound counts from the end and
\* both bounds are clamped to [0, n].
PyBound(x, n) == IF x < 0 THEN Max(x + n, 0) ELSE Min(x, n)
PySlice(s, n) ==
    LET lo == PyBound(s[1], n)
        hi == PyBound(s[2], n)
    IN  <<lo, Max(lo, hi)>>

\* (the slices without the clipping, which the properties must tell from
\* the clipped ones)
AxisSlicesNoClip(loc, d, boundary, ball_shape) ==
    [dst |-> <<loc - (d \div 2), loc - (d \div 2) + d>>,
     src |-> <<0, ball_shape>>]

\* The loop of draw_ball over one axis: the slice into the array and the
\* slice into the ball.
AxisSlices(loc, d, boundary, ball_shape) ==
    LET ball_start == loc - (d \div 2)
        ball_end == loc - (d \div 2) + d
        lowcut == ball_start < 0
        highcut == ball_end > boundary
    IN  [dst |-> <<IF lowcut THEN 0 ELSE ball_start,
                   IF highcut THEN boundary ELSE ball_end>>,
         src |-> <<IF lowcut THEN -1 * ball_start ELSE 0,
                   IF highcut THEN boundary - ball_end ELSE ball_shape>>]

\* (a cache that never stores, which the properties must tell from the
\* real one)
CacheInsertNothing(cache, diameter, ball) == cache

\* self.balls[diameter] = ball
CacheInsert(cache, diameter, ball) ==
    [k \in DOMAIN cache \cup {diameter} |->
       IF k = diameter THEN ball ELSE cache[k]]

\* (two other assignments the properties must tell from the real one: one
\* that never overwrites a label, one that clears the view outside the ball)
MaskedAssignKeepFirst(old, inview, mask, label) ==
    IF inview /\ mask /\ old = 0 THEN label ELSE old
MaskedAssignErase(old, inview, mask, label) ==
    IF inview THEN (IF mask THEN label ELSE 0) ELSE old

\* view[sliced_ball] = label, at one voxel of the array: inview says the
\* voxel is in the view, mask is the ball's value there.
MaskedAssign(old, inview, mask, label) ==
    IF inview /\ mask THEN label ELSE old

\* One draw_ball call on `array`, with the cache `cache`: the array and the
\* cache after the call, the locals, and whether the masked assignment
\* raised (numpy raises IndexError when the boolean mask's shape differs
\* from the shape of the view it indexes; the cache is updated before).
DrawBall(array, location, label, cache, kshape) ==
    LET diameter == <<kshape[1], kshape[2], kshape[3]>>
        hit == diameter \in DOMAIN cache
        ball == IF hit THEN cache[diameter] ELSE BooleanBall(diameter)
        cache2 == IF hit THEN cache ELSE CacheInsert(cache, diameter, ball)
        Sl(a) == AxisSlices(location[a], diameter[a], array.shape[a],
                            ball.shape[a])
        sl == <<Sl(1), Sl(2), Sl(3)>>
        view == <<PySlice(sl[1].dst, array.shape[1]),
                  PySlice(sl[2].dst, array.shape[2]),
                  PySlice(sl[3].dst, array.shape[3])>>
        sliced_ball == <<PySlice(sl[1].src, ball.shape[1]),
                         PySlice(sl[2].src, ball.shape[2]),
                         PySlice(sl[3].src, ball.shape[3])>>
        fits == \A a \in Axes :
                   view[a][2] - view[a][1]
                   = sliced_ball[a][2] - sliced_ball[a][1]
        InView(p) == \A a \in Axes :
                        /\ view[a][1] <= p[a]
                        /\ p[a] < view[a][2]
        BallAt(p) == ball.val[<<p[1] - view[1][1] + sliced_ball[1][1],
                                p[2] - view[2][1] + sliced_ball[2][1],
                                p[3] - view[3][1] + sliced_ball[3][1]>>]
    IN  [array |-> IF fits
                   THEN [array EXCEPT !.val =
                           [p \in Idx(array.shape) |->
                              MaskedAssign(array.val[p], InView(p),
                                           InView(p) /\ BallAt(p), label)]]
                   ELSE array,
         cache |-> cache2,
         raised |-> ~fits,
         hit |-> hit,
         slices |-> <<sl[1].dst, sl[2].dst, sl[3].dst>>,
         ball_slices |-> <<sl[1].src, sl[2].src, sl[3].src>>,
         view |-> view,
         sliced_ball |-> sliced_ball]

----------------------------------------------------------------------------
(* find_centres.                                                           *)

Raster(p, shape) == (p[1] * shape[2] + p[2]) * shape[3] + p[3]

\* Chebyshev distance, the p_norm=inf metric of peak_local_max
Abs(x) == IF x < 0 THEN -x ELSE x
Cheb(p, q) ==
    Max(Abs(p[1] - q[1]), Max(Abs(p[2] - q[2]), Abs(p[3] - q[3])))

\* kernel = resize(ball(100).astype(float64), kernel_shape): the solid
\* ball smoothed by resize's anti-aliasing Gaussian (sigma = (201/d - 1)/2
\* per axis) and sampled linearly on the kernel grid. The weights are the
\* values that computation gives for the kernel shapes of this model, in
\* parts per million; by the ball's symmetry a weight depends on how far
\* from the middle its index is on each axis.
KernelScale == 1000000

OffCentre(k, shape, a) == Abs(2 * k[a] - (shape[a] - 1))

FloatKernel(shape, k) ==
    LET oz == OffCentre(k, shape, 1)
        side == Cardinality({a \in {2, 3} : OffCentre(k, shape, a) # 0})
        all == Cardinality({a \in Axes : OffCentre(k, shape, a) # 0})
    IN  CASE shape = <<1, 1, 1>> -> 530317
          [] shape = <<2, 1, 1>> -> 527907
          [] shape = <<3, 3, 3>> ->
               <<976350, 821317, 507073, 258407>>[all + 1]
          [] shape = <<5, 3, 3>> ->
               <<<<990176, 881936, 566346>>,
                 <<963368, 742065, 426793>>,
                 <<721535, 344405, 142328>>>>[(oz \div 2) + 1][side + 1]

\* The index scipy.ndimage reads for position x of an axis of length n
\* under its default mode='reflect' (d c b a | a b c d | d c b a).
Reflect(x, n) ==
    LET r == x % (2 * n)
    IN  IF r < n THEN r ELSE 2 * n - 1 - r

Amplification == 5

\* scipy.ndimage.convolve: the output at voxel p is the sum, over the
\* kernel taps m, of kernel[m] * input[p - m + shape \div 2] with the input
\* index reflected into the array. The sum is taken here voxel by voxel of
\* the input: the taps that read input voxel q from p, on each axis ...
AxisTaps(pa, qa, d, n) ==
    {m \in 0..(d - 1) : Reflect(pa - m + (d \div 2), n) = qa}

\* ... their weights added up ...
RECURSIVE SumWeights(_, _)
SumWeights(shape, taps) ==
    IF taps = {} THEN 0
    ELSE LET m == CHOOSE m \in taps : TRUE
         IN  FloatKernel(shape, m) + SumWeights(shape, taps \ {m})

\* ... and the sum over the nonzero input voxels (a zero voxel adds 0).
RECURSIVE ConvolveSum(_, _, _, _)
ConvolveSum(data, shape, p, nonzero) ==
    IF nonzero = {} THEN 0
    ELSE LET q == CHOOSE q \in nonzero : TRUE
             taps == AxisTaps(p[1], q[1], shape[1], data.shape[1])
                     \X AxisTaps(p[2], q[2], shape[2], data.shape[2])
                     \X AxisTaps(p[3], q[3], shape[3], data.shape[3])
         IN  SumWeights(shape, taps) * (data.val[q] * Amplification)
             + ConvolveSum(data, shape, p, nonzero \ {q})

\* data_convolved = scipy.ndimage.convolve(data*5, kernel): the output has
\* the input's integer dtype, so each sum is truncated.
Convolve(data, shape) ==
    LET nonzero == {q \in Idx(data.shape) : data.val[q] # 0}
    IN  [p \in Idx(data.shape) |->
           ConvolveSum(data, shape, p, nonzero) \div KernelScale] @@ <<>>

\* skimage.measure.label(data): two voxels are connected when they are
\* neighbours (full connectivity: they differ by at most 1 on every axis)
\* and hold the same value; 0 is background.
Connected(data, p, q) == Cheb(p, q) <= 1 /\ data.val[p] = data.val[q]

RECURSIVE Grow(_, _, _)
Grow(data, S, pool) ==
    LET N == S \cup {q \in pool : \E p \in S : Connected(data, p, q)}
    IN  IF N = S THEN S ELSE Grow(data, N, pool)

First(S, shape) ==
    CHOOSE p \in S : \A q \in S : Raster(p, shape) <= Raster(q, shape)

\* The components in the order of their label numbers (raster order of
\* each component's first voxel).
RECURSIVE LabelFrom(_, _)
LabelFrom(data, rest) ==
    IF rest = {} THEN <<>>
    ELSE LET comp == Grow(data, {First(rest, data.shape)}, rest)
         IN  <<comp>> \o LabelFrom(data, rest \ comp)

Label(data) ==
    LabelFrom(data, {p \in Idx(data.shape) : data.val[p] # 0})

\* _exclude_border with exclude_border=True (the default): the labels of
\* the min_distance outermost layers of every axis are zeroed.
InBorder(p, shape, width) ==
    \E a \in Axes : p[a] < width \/ p[a] >= shape[a] - width

SetMin(S) == CHOOSE x \in S : \A y \in S : x <= y
SetMax(S) == CHOOSE x \in S : \A y \in S : x >= y

FaceNeighbours(p) ==
    {<<p[1] - 1, p[2], p[3]>>, <<p[1] + 1, p[2], p[3]>>,
     <<p[1], p[2] - 1, p[3]>>, <<p[1], p[2] + 1, p[3]>>,
     <<p[1], p[2], p[3] - 1>>, <<p[1], p[2], p[3] + 1>>}

\* scipy.ndimage.binary_opening(mask) on the cropped region box, with the
\* default cross structure and border value 0.
BinaryOpening(mask, box) ==
    LET eroded == {p \in mask : FaceNeighbours(p) \subseteq mask}
    IN  {q \in box : \E e \in eroded : q = e \/ q \in FaceNeighbours(e)}

\* _get_peak_mask on one label's region: comp is the label's voxels inside
\* the region box; voxels of the box outside comp hold the dtype's minimum
\* and are never above the threshold.
PeakMask(image, comp, box, threshold, distance) ==
    IF distance = 0 \/ Cardinality(box) = 1
    THEN {p \in comp : image[p] > threshold}
    ELSE LET IsMax(p) ==
                 \A q \in comp : Cheb(p, q) <= distance => image[q] <= image[p]
             out == {p \in comp : IsMax(p)}
             peaks == IF out = comp
                      THEN comp \ BinaryOpening(comp, box)
                      ELSE out
         IN  {p \in peaks : image[p] > threshold}

\* np.argsort(-intensities, kind="stable") over the raster-ordered peaks
RECURSIVE SortPeaks(_, _, _)
SortPeaks(image, S, shape) ==
    IF S = {} THEN <<>>
    ELSE LET best == CHOOSE p \in S : \A q \in S :
                        \/ image[p] > image[q]
                        \/ /\ image[p] = image[q]
                           /\ Raster(p, shape) <= Raster(q, shape)
         IN  <<best>> \o SortPeaks(image, S \ {best}, shape)

\* ensure_spacing: every kept peak rejects the later peaks closer than
\* spacing to it.
RECURSIVE EnsureSpacing(_, _)
EnsureSpacing(coords, spacing) ==
    IF coords = <<>> THEN <<>>
    ELSE <<Head(coords)>>
         \o EnsureSpacing(
                SelectSeq(Tail(coords),
                          LAMBDA q : ~(Cheb(Head(coords), q) < spacing)),
                spacing)

\* The peaks of one label, in peak_local_max's order.
LabelPeaks(image, shape, comp, threshold, distance) ==
    LET inner == {p \in comp : ~InBorder(p, shape, distance)}
        lo == [a \in Axes |-> SetMin({p[a] : p \in inner})]
        hi == [a \in Axes |-> SetMax({p[a] : p \in inner})]
        box == {p \in Idx(shape) :
                  \A a \in Axes : lo[a] <= p[a] /\ p[a] <= hi[a]}
        mask == comp \cap box
    IN  IF inner = {} THEN <<>>
        ELSE EnsureSpacing(
                 SortPeaks(image,
                           PeakMask(image, mask, box, threshold, distance),
                           shape),
                 distance)

RECURSIVE PeaksOfLabels(_, _, _, _, _)
PeaksOfLabels(image, shape, labels, threshold, distance) ==
    IF labels = <<>> THEN <<>>
    ELSE LabelPeaks(image, shape, Head(labels), threshold, distance)
         \o PeaksOfLabels(image, shape, Tail(labels), threshold, distance)

\* skimage.feature.peak_local_max(image, min_distance, labels=labels)
PeakLocalMax(image, shape, labels, distance) ==
    PeaksOfLabels(image, shape, labels,
                  SetMin({image[p] : p \in Idx(shape)}), distance)

\* find_centres(data)
FindCentres(data, kshape, distance) ==
    PeakLocalMax(Convolve(data, kshape), data.shape, Label(data), distance)

----------------------------------------------------------------------------
(* compute_gt's first line: pos_data + neg_data under numpy broadcasting.  *)

\* Two shapes broadcast when on every axis the extents are equal or one of
\* them is 1; otherwise numpy raises ValueError.
Broadcastable(s, t) ==
    \A a \in Axes : s[a] = t[a] \/ s[a] = 1 \/ t[a] = 1

BroadcastAxis(m, n) == IF m = 1 THEN n ELSE m
BroadcastShape(s, t) ==
    <<BroadcastAxis(s[1], t[1]), BroadcastAxis(s[2], t[2]),
      BroadcastAxis(s[3], t[3])>>

At(arr, p) ==
    arr.val[<<IF arr.shape[1] = 1 THEN 0 ELSE p[1],
              IF arr.shape[2] = 1 THEN 0 ELSE p[2],
              IF arr.shape[3] = 1 THEN 0 ELSE p[3]>>]

\* hand_labelled_data = self.pos_data + self.neg_data
Add(x, y) ==
    LET shape == BroadcastShape(x.shape, y.shape)
    IN  [shape |-> shape,
         val |-> [p \in Idx(shape) |-> At(x, p) + At(y, p)] @@ <<>>]

----------------------------------------------------------------------------
(* The inputs the model draws from.                                        *)

\* (pos_data.shape, neg_data.shape): equal, broadcastable, incompatible
ShapePairs ==
    {<<<<3, 3, 5>>, <<3, 3, 5>>>>,
     <<<<1, 3, 5>>, <<3, 3, 5>>>>,
     <<<<3, 3, 2>>, <<3, 3, 5>>>>}

\* voxels a marking may be painted at: one on the border of the volume
\* and the interior voxels of a 3 x 3 x 5 volume
Sites ==
    {<<0, 1, 0>>, <<1, 1, 1>>, <<1, 1, 2>>, <<1, 1, 3>>}

\* the label value painted in each layer
ClassLabel == [pos |-> 1, neg |-> 2]

MarkSets(ps, ns) ==
    {M \in SUBSET ({[site |-> v, cls |-> "pos"] : v \in Sites \cap Idx(ps)}
                   \cup {[site |-> v, cls |-> "neg"] :
                           v \in Sites \cap Idx(ns)}) :
       Cardinality(M) <= MaxMarks}

Marked(shape, M, c) ==
    [shape |-> shape,
     val |-> [p \in Idx(shape) |->
                IF [site |-> p, cls |-> c] \in M THEN ClassLabel[c] ELSE 0]]

\* (vesicle_diameter, resolution): kernel shapes (0,0,0), (1,1,1),
\* (2,1,1), (3,3,3) and (5,3,3)
Parameters ==
    {<<0, <<60, 60, 60>>>>, <<60, <<60, 60, 60>>>>, <<60, <<36, 60, 60>>>>,
     <<180, <<60, 60, 60>>>>, <<180, <<36, 60, 60>>>>}

\* the arguments of the direct draw_ball calls
CanvasShape == <<1, 3, 5>>
Locations ==
    {<<0, 0, 4>>, <<0, 1, 5>>, <<0, 1, 7>>, <<0, 1, -3>>}
DrawLabels == {2}

NoCall ==
    [target |-> "none", location |-> <<0, 0, 0>>, label |-> 0,
     raised |-> FALSE, hit |-> FALSE, slices |-> <<>>, ball_slices |-> <<>>,
     view |-> <<>>, sliced_ball |-> <<>>]

CallRecord(target, location, label, r) ==
    [target |-> target, location |-> location, label |-> label,
     raised |-> r.raised, hit |-> r.hit, slices |-> r.slices,
     ball_slices |-> r.ball_slices, view |-> r.view,
     sliced_ball |-> r.sliced_ball]

----------------------------------------------------------------------------
(* The state machine.                                                      *)

\* GroundTruth.__init__ with the defaults min_distance = 1
DefaultMinDistance == 1

\* the fields a fresh instance and its caller start with, before
\* __init__ has computed kernel_shape
Fresh(pos, neg, diameter, resolution) ==
    /\ pos_data = pos
    /\ neg_data = neg
    /\ vesicle_diameter = diameter
    /\ voxel_size = resolution
    /\ min_distance = DefaultMinDistance
    /\ balls = <<>>
    /\ ground_truth = NoArray
    /\ hand_labelled_data = NoArray
    /\ vesicle_centres = <<>>
    /\ i = 0
    /\ returned = <<>>
    /\ returned_id = <<>>
    /\ gt_id = 0
    /\ canvas = Zeros(CanvasShape)
    /\ last = NoCall
    /\ err = "none"
    /\ computes = 0
    /\ draws = 0

\* the state after GroundTruth(pos_data, neg_data, vesicle_diameter,
\* resolution)
Init ==
    \E sp \in ShapePairs, dr \in Parameters :
      \E M \in MarkSets(sp[1], sp[2]) :
        /\ Fresh(Marked(sp[1], M, "pos"), Marked(sp[2], M, "neg"),
                 dr[1], dr[2])
        /\ kernel_shape = KernelShape(dr[1], dr[2])
        /\ pc = "idle"

\* GroundTruth.__init__, lines 100-101
Construct ==
    /\ pc = "new"
    /\ kernel_shape' = KernelShape(vesicle_diameter, voxel_size)
    /\ pc' = "idle"
    /\ UNCHANGED <<pos_data, neg_data, vesicle_diameter, voxel_size,
                   min_distance, balls, ground_truth, hand_labelled_data,
                   vesicle_centres, i, returned, returned_id, gt_id, canvas,
                   last, err, computes, draws>>

\* (an allocation that hands the previous array back, as zeroing
\* self.ground_truth in place would; the properties must tell it from a
\* new array)
NewArrayReuse(id) == id

\* np.zeros(...) makes a new array object every time: its identity, given
\* the identity of the array made before it
NewArray(id) == id + 1

\* A write to the array of identity id, seen through the references the
\* caller holds: compute_gt returns self.ground_truth itself, not a copy,
\* so a returned volume of that identity shows the write.
Store(vols, ids, id, value) ==
    [n \in 1..Len(vols) |-> IF ids[n] = id THEN value ELSE vols[n]]

\* compute_gt, line 205 raising: the shapes do not broadcast
ComputeGtShapeError ==
    /\ pc = "idle"
    /\ computes < MaxComputes
    /\ ~Broadcastable(pos_data.shape, neg_data.shape)
    /\ err' = "ValueError"
    /\ computes' = computes + 1
    /\ UNCHANGED <<pos_data, neg_data, vesicle_diameter, voxel_size,
                   min_distance, kernel_shape, balls, ground_truth,
                   hand_labelled_data, vesicle_centres, i, pc, returned,
                   returned_id, gt_id, canvas, last, draws>>

\* compute_gt, lines 205-209 with find_centres raising: resize cannot
\* build a kernel with an axis of fewer than 1 voxel (its anti-aliasing
\* sigma is infinite); ground_truth has been allocated by then
ComputeGtKernelError ==
    /\ pc = "idle"
    /\ computes < MaxComputes
    /\ Broadcastable(pos_data.shape, neg_data.shape)
    /\ \E a \in Axes : kernel_shape[a] < 1
    /\ \E data \in {Add(pos_data, neg_data)} :
         /\ hand_labelled_data' = data
         /\ gt_id' = NewArray(gt_id)
         /\ ground_truth' = Zeros(data.shape)
         /\ returned' = Store(returned, returned_id, gt_id', ground_truth')
    /\ err' = "ResizeError"
    /\ computes' = computes + 1
    /\ UNCHANGED <<pos_data, neg_data, vesicle_diameter, voxel_size,
                   min_distance, kernel_shape, balls, vesicle_centres, i, pc,
                   returned_id, canvas, last, draws>>

\* compute_gt, lines 205-209
ComputeGtBegin ==
    /\ pc = "idle"
    /\ computes < MaxComputes
    /\ Broadcastable(pos_data.shape, neg_data.shape)
    /\ \A a \in Axes : kernel_shape[a] >= 1
    /\ \E data \in {Add(pos_data, neg_data)} :
         /\ hand_labelled_data' = data
         /\ gt_id' = NewArray(gt_id)
         /\ ground_truth' = Zeros(data.shape)
         /\ returned' = Store(returned, returned_id, gt_id', ground_truth')
         /\ vesicle_centres' = FindCentres(data, kernel_shape, min_distance)
    /\ i' = 0
    /\ pc' = "stamping"
    /\ err' = "none"
    /\ computes' = computes + 1
    /\ UNCHANGED <<pos_data, neg_data, vesicle_diameter, voxel_size,
                   min_distance, kernel_shape, balls, returned_id, canvas,
                   last, draws>>

\* (draw_ball's default label, which the properties must tell from the
\* label compute_gt passes)
StampLabelDefault(data, loc) == 1

\* the label compute_gt hands to draw_ball for centre loc
StampLabel(data, loc) == data.val[loc]

\* compute_gt, lines 210-212: one iteration of the loop
ComputeGtStamp ==
    /\ pc = "stamping"
    /\ i < Len(vesicle_centres)
    /\ \E loc \in {vesicle_centres[i + 1]} :
       \E label \in {StampLabel(hand_labelled_data, loc)} :
       \E r \in {DrawBall(ground_truth, loc, label, balls, kernel_shape)} :
         /\ ground_truth' = r.array
         /\ returned' = Store(returned, returned_id, gt_id, r.array)
         /\ balls' = r.cache
         /\ last' = CallRecord("ground_truth", loc, label, r)
         /\ err' = IF r.raised THEN "IndexError" ELSE "none"
         /\ pc' = IF r.raised THEN "idle" ELSE "stamping"
         /\ i' = IF r.raised THEN i ELSE i + 1
    /\ UNCHANGED <<pos_data, neg_data, vesicle_diameter, voxel_size,
                   min_distance, kernel_shape, hand_labelled_data,
                   vesicle_centres, returned_id, gt_id, canvas, computes,
                   draws>>

\* compute_gt, line 214
ComputeGtReturn ==
    /\ pc = "stamping"
    /\ i = Len(vesicle_centres)
    /\ returned' = Append(returned, ground_truth)
    /\ returned_id' = Append(returned_id, gt_id)
    /\ pc' = "idle"
    /\ UNCHANGED <<pos_data, neg_data, vesicle_diameter, voxel_size,
                   min_distance, kernel_shape, balls, ground_truth, gt_id,
                   hand_labelled_data, vesicle_centres, i, canvas, last, err,
                   computes, draws>>

\* a caller's own draw_ball(array=canvas, location, label)
DrawBallCall ==
    /\ pc = "idle"
    /\ draws < MaxDraws
    /\ \E location \in Locations, label \in DrawLabels :
       \E r \in {DrawBall(canvas, location, label, balls, kernel_shape)} :
         /\ canvas' = r.array
         /\ balls' = r.cache
         /\ last' = CallRecord("canvas", location, label, r)
         /\ err' = IF r.raised THEN "IndexError" ELSE "none"
    /\ draws' = draws + 1
    /\ UNCHANGED <<pos_data, neg_data, vesicle_diameter, voxel_size,
                   min_distance, kernel_shape, ground_truth,
                   hand_labelled_data, vesicle_centres, i, pc, returned,
                   returned_id, gt_id, computes>>

Next ==
    \/ ComputeGtShapeError
    \/ ComputeGtKernelError
    \/ ComputeGtBegin
    \/ ComputeGtStamp
    \/ ComputeGtReturn
    \/ DrawBallCall

Spec == Init /\ [][Next]_vars

----------------------------------------------------------------------------
(* The kernel shape alone: the constructor applied to a wider range of     *)
(* diameters and resolutions, on empty volumes.                            *)

KernelDiameters == {1, 10, 59, 60, 61, 180, 299, 300, 301}
KernelResolutions == {1, 30, 60, 100}

InitKernel ==
    \E d \in KernelDiameters :
      \E rz \in KernelResolutions, ry \in KernelResolutions,
         rx \in KernelResolutions :
        /\ Fresh(Zeros(<<3, 3, 5>>), Zeros(<<3, 3, 5>>), d, <<rz, ry, rx>>)
        /\ kernel_shape = <<>>
        /\ pc = "new"

NextKernel == Construct

SpecKernel == InitKernel /\ [][NextKernel]_vars

----------------------------------------------------------------------------
(* Helpers of the properties below.                                        *)

Values(arr) == {arr.val[p] : p \in Idx(arr.shape)}

AllZero(arr) == \A p \in Idx(arr.shape) : arr.val[p] = 0

NonZero(arr) == {p \in Idx(arr.shape) : arr.val[p] # 0}

ValidKernel == \A a \in Axes : kernel_shape[a] >= 1

SameShape == pos_data.shape = neg_data.shape

Disjoint ==
    \A p \in Idx(pos_data.shape) \cap Idx(neg_data.shape) :
       pos_data.val[p] = 0 \/ neg_data.val[p] = 0

\* voxel v lies in the True region of the kernel-shaped ball centred at c
\* (the ball occupies [c - s \div 2, c - s \div 2 + s) on every axis)
Covers(c, v) ==
    LET k == <<v[1] - c[1] + (kernel_shape[1] \div 2),
               v[2] - c[2] + (kernel_shape[2] \div 2),
               v[3] - c[3] + (kernel_shape[3] \div 2)>>
    IN  /\ k \in Idx(kernel_shape)
        /\ BallVoxel(kernel_shape, k)

----------------------------------------------------------------------------
(* C7. Under SpecKernel: once the constructor has run, the kernel shape is *)
(* ceil(diameter / resolution[a]) on every axis a, i.e. the least integer  *)
(* n with n * resolution[a] >= diameter; every entry is >= 1; diameter 300 *)
(* gives (5,5,5) at resolution (60,60,60) and (10,5,5) at (30,60,60).      *)
KernelShapeIsCeil ==
    pc = "idle" =>
      /\ \A a \in Axes :
           /\ kernel_shape[a] >= 1
           /\ kernel_shape[a] * voxel_size[a] >= vesicle_diameter
           /\ (kernel_shape[a] - 1) * voxel_size[a] < vesicle_diameter
      /\ (vesicle_diameter = 300 /\ voxel_size = <<60, 60, 60>>
            => kernel_shape = <<5, 5, 5>>)
      /\ (vesicle_diameter = 300 /\ voxel_size = <<30, 60, 60>>
            => kernel_shape = <<10, 5, 5>>)

KernelShapeAnisotropicReached ==
    /\ pc = "idle"
    /\ vesicle_diameter = 300
    /\ voxel_size = <<30, 60, 60>>
    /\ kernel_shape = <<10, 5, 5>>

(* C8. As claimed: whenever the kernel shape has an entry below 1 the      *)
(* instance's computation has failed with InvalidKernelShape, and no       *)
(* ground-truth volume has been allocated, stamped or returned.            *)
InvalidKernelShapeRaised ==
    (\E a \in Axes : kernel_shape[a] < 1) =>
      /\ err = "InvalidKernelShape"
      /\ ground_truth = NoArray
      /\ returned = <<>>

(* C9. As claimed: when pos_data and neg_data differ in shape, every       *)
(* compute_gt call raises (numpy's ValueError standing for ShapeMismatch)  *)
(* and no combined volume, centre list or output volume is produced.       *)
ShapeMismatchRaised ==
    ~SameShape =>
      /\ pc = "idle"
      /\ hand_labelled_data = NoArray
      /\ vesicle_centres = <<>>
      /\ ground_truth = NoArray
      /\ returned = <<>>
      /\ (computes > 0 /\ draws = 0 => err = "ValueError")

EmptyInput == SameShape /\ AllZero(pos_data) /\ AllZero(neg_data)

(* C5. When pos_data and neg_data are all-zero volumes of one shape (and   *)
(* the diameter is positive), compute_gt finds no centre, stamps nothing,  *)
(* raises nothing and returns the all-zero volume of that shape.           *)
EmptyInputGivesBackground ==
    EmptyInput /\ vesicle_diameter > 0 =>
      /\ vesicle_centres = <<>>
      /\ last.target # "ground_truth"
      /\ (draws = 0 => err = "none")
      /\ (computes > 0 =>
            ground_truth.shape = pos_data.shape /\ AllZero(ground_truth))
      /\ (pc = "idle" => Len(returned) = computes)
      /\ \A n \in 1..Len(returned) :
           /\ returned[n].shape = pos_data.shape
           /\ AllZero(returned[n])

EmptyInputReturned ==
    EmptyInput /\ vesicle_diameter > 0 /\ pc = "idle" /\ Len(returned) = 1

OutputHasInputLabels ==
    \A n \in 1..Len(returned) :
       /\ returned[n].shape = pos_data.shape
       /\ returned[n].shape = neg_data.shape
       /\ Values(returned[n]) \subseteq
            {0} \cup Values(pos_data) \cup Values(neg_data)

(* C4. As claimed, for every pair of inputs of one shape: every returned   *)
(* volume has the inputs' shape and each of its voxels is 0 or a label     *)
(* value that occurs in pos_data or in neg_data.                           *)
OutputLabelsAnyInput == SameShape => OutputHasInputLabels

(* C4 as amended: the same, for inputs of one shape that are disjoint (no  *)
(* voxel is nonzero in both).                                              *)
OutputLabelsDisjointInput == SameShape /\ Disjoint => OutputHasInputLabels

OutputLabelsReached ==
    /\ SameShape
    /\ Disjoint
    /\ Len(returned) >= 1
    /\ 1 \in Values(returned[1])
    /\ 2 \in Values(returned[1])

SingleIsolatedMarks ==
    /\ SameShape
    /\ Disjoint
    /\ ValidKernel
    /\ Cardinality(NonZero(pos_data)) = 1
    /\ Cardinality(NonZero(neg_data)) = 1
    /\ \A p \in NonZero(pos_data), q \in NonZero(neg_data) : Cheb(p, q) > 1

OneBallAt(vol, marks) ==
    \A v \in Idx(vol.shape) :
       LET covering == {c \in marks : Covers(c, v)}
       IN  IF covering = {} THEN vol.val[v] = 0
           ELSE \E c \in covering :
                  vol.val[v] = pos_data.val[c] + neg_data.val[c]

(* C1. As claimed: when pos_data and neg_data are disjoint and each holds  *)
(* a single marked voxel, the two not adjacent, every returned volume      *)
(* holds for each marked voxel the kernel-shaped ball centred at it,       *)
(* carrying its label, and 0 elsewhere (where the two balls overlap,       *)
(* either label is accepted).                                              *)
OneBallPerMark ==
    SingleIsolatedMarks =>
      \A n \in 1..Len(returned) :
         OneBallAt(returned[n], NonZero(pos_data) \cup NonZero(neg_data))

\* the centres stamped so far whose ball covers voxel v
StampedSoFar(v) == {j \in 1..i : Covers(vesicle_centres[j], v)}

(* C2. While compute_gt stamps, the centres are stamped in the order of    *)
(* the centre list, each with the combined volume's value at the centre,   *)
(* and every voxel covered by the ball of one or more of the centres       *)
(* stamped so far holds the label of the last of them in the list; a voxel *)
(* no stamped ball covers is 0. With the last centre stamped this is the   *)
(* volume compute_gt returns.                                              *)
LastWrittenWins ==
    pc = "stamping" =>
      /\ i > 0 =>
           /\ last.target = "ground_truth"
           /\ last.location = vesicle_centres[i]
           /\ last.label = hand_labelled_data.val[vesicle_centres[i]]
      /\ \A v \in Idx(ground_truth.shape) :
           IF StampedSoFar(v) = {} THEN ground_truth.val[v] = 0
           ELSE ground_truth.val[v] =
                  hand_labelled_data.val[
                      vesicle_centres[SetMax(StampedSoFar(v))]]

OverlapDecidedByOrder ==
    /\ pc = "stamping"
    /\ i = Len(vesicle_centres)
    /\ \E v \in Idx(ground_truth.shape) :
       \E j \in StampedSoFar(v), k \in StampedSoFar(v) :
          /\ j < k
          /\ hand_labelled_data.val[vesicle_centres[j]]
               # hand_labelled_data.val[vesicle_centres[k]]

\* the array the most recent draw_ball call drew in
LastTarget == IF last.target = "canvas" THEN canvas ELSE ground_truth

(* C3. After a draw_ball call whose centre lies inside the target, with a  *)
(* kernel shape of entries >= 1: the call did not raise and, on every axis *)
(* (c the centre, s the kernel size, n the extent), the range written is   *)
(* [max(0, c - s \div 2), min(n, c - s \div 2 + s)), the range read from   *)
(* the ball has the same length and starts at the number of voxels cut off *)
(* the low end, and both lie inside their arrays.                          *)
ClippedRangesInBounds ==
    (/\ last.target # "none"
     /\ ValidKernel
     /\ last.location \in Idx(LastTarget.shape)) =>
      /\ ~last.raised
      /\ \A a \in Axes :
           LET c == last.location[a]
               s == kernel_shape[a]
               n == LastTarget.shape[a]
               start == c - (s \div 2)
           IN  /\ last.view[a] = <<Max(0, start), Min(n, start + s)>>
               /\ last.view[a][1] < last.view[a][2]
               /\ last.sliced_ball[a][1] = Max(0, 0 - start)
               /\ last.sliced_ball[a][2] - last.sliced_ball[a][1]
                    = last.view[a][2] - last.view[a][1]
               /\ last.sliced_ball[a][2] <= s

\* a ball larger than the target, cut on both ends of an axis
ClippedBothEnds ==
    /\ last.target # "none"
    /\ ValidKernel
    /\ last.location \in Idx(LastTarget.shape)
    /\ ~last.raised
    /\ \E a \in Axes :
         /\ last.location[a] - (kernel_shape[a] \div 2) < 0
         /\ last.location[a] - (kernel_shape[a] \div 2) + kernel_shape[a]
              > LastTarget.shape[a]
         /\ last.view[a] = <<0, LastTarget.shape[a]>>

\* the step is a draw_ball call: compute_gt's, or the caller's own
Stamped == pc = "stamping" /\ i < Len(vesicle_centres) /\ i' = i + 1
Drew == draws' = draws + 1

Key == <<kernel_shape[1], kernel_shape[2], kernel_shape[3]>>

CacheStep ==
    /\ \A k \in DOMAIN balls : k \in DOMAIN balls' /\ balls'[k] = balls[k]
    /\ (Stamped \/ Drew) /\ ValidKernel =>
         /\ last'.hit = (Key \in DOMAIN balls)
         /\ DOMAIN balls' = DOMAIN balls \cup {Key}
         /\ (Key \in DOMAIN balls => balls' = balls)
    /\ ~(Stamped \/ Drew) => balls' = balls

(* C6. The ball cache holds at most one entry, under the instance's kernel *)
(* shape; a draw_ball call (kernel entries >= 1) that finds no entry for   *)
(* the shape inserts one mask under that key, a call that finds one leaves *)
(* the cache as it is, and no step removes or replaces an entry.           *)
CacheOneEntryPerShape ==
    /\ [](DOMAIN balls \subseteq {Key})
    /\ [][CacheStep]_vars

CacheReused ==
    /\ last.target # "none"
    /\ last.hit
    /\ Key \in DOMAIN balls

\* voxel v is in the range the most recent call wrote, and the ball is
\* True at the corresponding voxel of the range it read
InWrittenRange(call, v) ==
    \A a \in Axes : call.view[a][1] <= v[a] /\ v[a] < call.view[a][2]

BallTrueAt(call, v) ==
    BallVoxel(Key,
        <<v[1] - call.view[1][1] + call.sliced_ball[1][1],
          v[2] - call.view[2][1] + call.sliced_ball[2][1],
          v[3] - call.view[3][1] + call.sliced_ball[3][1]>>)

FrameOf(before, after, call) ==
    \A v \in Idx(before.shape) :
       IF ~call.raised /\ InWrittenRange(call, v) /\ BallTrueAt(call, v)
       THEN after.val[v] = call.label
       ELSE after.val[v] = before.val[v]

(* C10. One draw_ball call sets to the given label the voxels of the       *)
(* clipped range whose ball voxel is True and leaves every other voxel of  *)
(* the target as it was, also a voxel of the range whose ball voxel is     *)
(* False.                                                                  *)
DrawBallFrame ==
    [][/\ Stamped => FrameOf(ground_truth, ground_truth', last')
       /\ Drew => FrameOf(canvas, canvas', last')]_vars

\* a stamp has left an earlier stamp's label at a voxel of its range
EarlierLabelKept ==
    /\ pc = "stamping"
    /\ i >= 2
    /\ \E v \in Idx(ground_truth.shape) :
         /\ InWrittenRange(last, v)
         /\ ~BallTrueAt(last, v)
         /\ ground_truth.val[v] # 0
         /\ ground_truth.val[v] # last.label

\* the ball of a call at centre c has, on some axis, a range
\* [c - s \div 2, c - s \div 2 + s) that misses [0, extent) altogether
OutOfRange(c, shape) ==
    \E a \in Axes :
       \/ c[a] - (kernel_shape[a] \div 2) + kernel_shape[a] <= 0
       \/ c[a] - (kernel_shape[a] \div 2) >= shape[a]

InputsAndReturnedKept ==
    [][/\ pos_data' = pos_data
       /\ neg_data' = neg_data
       /\ computes' = computes + 1 /\ err' # "ValueError" =>
            /\ AllZero(ground_truth')
            /\ gt_id' # gt_id
            /\ \A n \in 1..Len(returned_id) : returned_id[n] # gt_id'
       /\ Len(returned') = Len(returned) + 1 =>
            /\ returned'[Len(returned')] = ground_truth
            /\ returned_id'[Len(returned')] = gt_id
       /\ \A n \in 1..Len(returned) :
            /\ returned'[n] = returned[n]
            /\ returned_id'[n] = returned_id[n]]_vars

\* a second compute_gt call has stamped and returned, the first call's
\* volume being another array that holds the first call's balls
SecondVolumeReturned ==
    /\ pc = "idle"
    /\ Len(returned) = 2
    /\ returned_id[1] # returned_id[2]
    /\ ~AllZero(returned[1])
    /\ ~AllZero(pos_data)
    /\ ~AllZero(neg_data)

(* C13. As claimed, for disjoint inputs of one shape: once find_centres    *)
(* has run, any two adjacent (26-neighbour) nonzero voxels of the combined *)
(* volume lie in one component of the labelling the maxima search is       *)
(* restricted to, whatever their values, and every centre returned is a    *)
(* nonzero voxel of the combined volume.                                   *)
ComponentsOfBinaryMask ==
    pc = "stamping" /\ SameShape /\ Disjoint =>
      /\ \A p \in NonZero(hand_labelled_data),
            q \in NonZero(hand_labelled_data) :
            Cheb(p, q) <= 1 =>
              \E n \in 1..Len(Label(hand_labelled_data)) :
                 /\ p \in Label(hand_labelled_data)[n]
                 /\ q \in Label(hand_labelled_data)[n]
      /\ \A j \in 1..Len(vesicle_centres) :
            hand_labelled_data.val[vesicle_centres[j]] # 0

====
